---- MODULE Spec2Model ----
(***************************************************************************)
(* Snmnmf (mf/methods/factorization/snmnmf.py): the multi-run controller   *)
(* factorize, the stopping rule is_satisfied, the multiplicative update    *)
(* and the objective.                                                      *)
(*                                                                         *)
(* Two specifications share the variables:                                 *)
(*   Spec        the controller.  W, H, H1 are terms [seed, upd]: "the      *)
(*               matrix seeded by call <<run, idx>> after upd updates";    *)
(*               objective() returns any value of ObjVals and sets err_avg *)
(*               to any value of ErrVals (objective values are ordered     *)
(*               numbers; NaN is outside the model).                       *)
(*   SpecUpdate  objective() and one update() on concrete matrices of      *)
(*               exact rationals, with IEEE-style inf and nan for x/0,     *)
(*               from every W, H, H1 with entries in Entries.              *)
(***************************************************************************)
EXTENDS Integers, Sequences, FiniteSets, TLC

VARIABLES
    pc,             \* position of factorize
    V, V1,          \* Spec: [shape |-> <<rows, cols>>]; SpecUpdate: matrices
    A, B, gamma, gamma_1, lamb, lamb_1,
    n_run, test_conv, max_iter, min_residuals,
    callback, track_factor, track_error,
    options_idx,    \* self.options['idx'], or "absent"
    run, iter, p_obj, c_obj, best_obj, err_avg,
    W, H, H1,
    final_obj, n_iter,      \* self.final_obj, self.n_iter
    mffit,          \* the local mffit: the Mf_fit object last bound at line 107
    cb_arg, cb_count,       \* what the callback observed in this run; calls so far
    tracker,        \* what the tracker recorded last in this run
    obj_of,         \* history: the W, H, H1 on which c_obj was evaluated
    obj_prev,       \* history: the value objective() returned before the latest
    finals,         \* history: the final objective of every completed run
    ret_end,        \* history: deep copy of the run state at the last retention
    prevW, prevH, prevH1,   \* SpecUpdate history: the matrices before update
    zero_den        \* SpecUpdate history: some update divided by zero

vars == <<pc, V, V1, A, B, gamma, gamma_1, lamb, lamb_1, n_run, test_conv,
          max_iter, min_residuals, callback, track_factor, track_error,
          options_idx, run, iter, p_obj, c_obj, best_obj, err_avg, W, H, H1,
          final_obj, n_iter, mffit, cb_arg, cb_count, tracker, obj_of,
          obj_prev, finals, ret_end, prevW, prevH, prevH1, zero_den>>

(***************************************************************************)
(* Bounds                                                                  *)
(***************************************************************************)
MaxRun == 2
MaxMaxIter == 2
MaxObj == 1
\* the loop of a run is cut after IterCap updates (max_iter may be unset)
IterCap == MaxMaxIter + 2

ObjVals == 0..MaxObj
\* err_avg in units of the tolerance 1e-5 of line 126
ErrTol == 1
ErrVals == {0, ErrTol}
MinResiduals == {0, 1}
\* test_conv: unset (None/0), every iteration, every 2nd, every 3rd
TestConvs == {0, 1, 2, 3}
RowCounts == {3, 5}

\* an attribute or local not assigned yet: no objective value, iteration
\* count or run index is negative
NoValue == 0 - 1
NoMatrix == [seed |-> <<NoValue, NoValue>>, upd |-> 0]
NoFit == [created_by |-> NoValue]
NoSnapshot ==
    [W |-> NoMatrix, H |-> NoMatrix, H1 |-> NoMatrix,
     final_obj |-> NoValue, n_iter |-> NoValue]
NoRecords == [errors |-> <<NoValue, NoValue>>, factors |-> NoSnapshot]
NotUsed == "n/a"

(***************************************************************************)
(* Controller (Spec)                                                       *)
(***************************************************************************)
\* Python truthiness of an int-or-None option: None and 0 are both false
Truthy(x) == x # 0

\* line 76
ShapeMismatch_dropped == FALSE
ShapeMismatch == V.shape[1] # V1.shape[1]

\* line 154: the tracker exists only under these flags
tracker_present == (track_factor /\ n_run > 1) \/ track_error

\* lines 89 and 91, evaluating on the pass that precedes the next check
EvalPoint_beforecheck(it) == ~Truthy(test_conv) \/ (it + 1) % test_conv = 0

\* lines 89 and 91: "not self.test_conv or iter % self.test_conv == 0"
EvalPoint(it) == ~Truthy(test_conv) \/ it % test_conv = 0

\* lines 111-134, with `<` for `<=` at line 128
is_satisfied_late(p, c, it) ==
    IF Truthy(test_conv) /\ it % test_conv # 0 THEN TRUE
    ELSE IF err_avg < ErrTol THEN FALSE
    ELSE IF Truthy(max_iter) /\ max_iter < it THEN FALSE
    ELSE IF Truthy(min_residuals) /\ it > 0 /\ p - c < min_residuals THEN FALSE
    ELSE IF it > 0 /\ c > p THEN FALSE
    ELSE TRUE

\* lines 111-134, without the regression test of lines 132-133
is_satisfied_noregress(p, c, it) ==
    IF Truthy(test_conv) /\ it % test_conv # 0 THEN TRUE
    ELSE IF err_avg < ErrTol THEN FALSE
    ELSE IF Truthy(max_iter) /\ max_iter <= it THEN FALSE
    ELSE IF Truthy(min_residuals) /\ it > 0 /\ p - c < min_residuals THEN FALSE
    ELSE TRUE

\* lines 111-134, with the max_iter test moved before the test_conv test
is_satisfied_budgetfirst(p, c, it) ==
    IF Truthy(max_iter) /\ max_iter <= it THEN FALSE
    ELSE IF Truthy(test_conv) /\ it % test_conv # 0 THEN TRUE
    ELSE IF err_avg < ErrTol THEN FALSE
    ELSE IF Truthy(min_residuals) /\ it > 0 /\ p - c < min_residuals THEN FALSE
    ELSE IF it > 0 /\ c > p THEN FALSE
    ELSE TRUE

\* lines 111-134: TRUE = continue
is_satisfied(p, c, it) ==
    IF Truthy(test_conv) /\ it % test_conv # 0 THEN TRUE
    ELSE IF err_avg < ErrTol THEN FALSE
    ELSE IF Truthy(max_iter) /\ max_iter <= it THEN FALSE
    ELSE IF Truthy(min_residuals) /\ it > 0 /\ p - c < min_residuals THEN FALSE
    ELSE IF it > 0 /\ c > p THEN FALSE
    ELSE TRUE

\* line 103
Accepts_strict(c, best, r) == c < best \/ r = 0
Accepts(c, best, r) == c <= best \/ r = 0

\* lines 81 and 83: seed.initialize(...), call idx of run r
Seeded(r, idx) == [seed |-> <<r, idx>>, upd |-> 0]

\* line 90 on terms: one more update applied
Updated(m) == [m EXCEPT !.upd = @ + 1]

\* Mf_fit(self) keeps a reference to the live model (spec section 9: the
\* best snapshot aliases the live working matrices): what a holder of the
\* object reads is the model's current fields.
Mf_fit(r) == [created_by |-> r]
Fitted(w, h, h1, fo, ni) ==
    [W |-> w, H |-> h, H1 |-> h1, final_obj |-> fo, n_iter |-> ni]
Exposed(m) ==
    IF m = NoFit THEN NoSnapshot ELSE Fitted(W, H, H1, final_obj, n_iter)

InitShared ==
    /\ prevW = NotUsed /\ prevH = NotUsed /\ prevH1 = NotUsed
    /\ zero_den = FALSE

Init ==
    /\ pc = "start"
    /\ V = [shape |-> <<3, 4>>]
    /\ V1 \in {[shape |-> <<r, 4>>] : r \in RowCounts}
    /\ A = NotUsed /\ B = NotUsed
    /\ gamma = NotUsed /\ gamma_1 = NotUsed /\ lamb = NotUsed /\ lamb_1 = NotUsed
    /\ n_run \in 1..MaxRun
    /\ test_conv \in TestConvs
    /\ max_iter \in 0..MaxMaxIter
    /\ min_residuals \in MinResiduals
    /\ callback \in BOOLEAN
    /\ track_factor \in BOOLEAN
    /\ track_error \in BOOLEAN
    /\ options_idx = "absent"
    /\ run = 0 /\ iter = 0
    /\ p_obj = NoValue /\ c_obj = NoValue /\ best_obj = NoValue
    /\ err_avg = NoValue
    /\ W = NoMatrix /\ H = NoMatrix /\ H1 = NoMatrix
    /\ final_obj = NoValue /\ n_iter = NoValue
    /\ mffit = NoFit
    /\ cb_arg = NoSnapshot /\ cb_count = 0
    /\ tracker = NoRecords
    /\ obj_of = <<NoMatrix, NoMatrix, NoMatrix>> /\ obj_prev = NoValue
    /\ finals = <<>>
    /\ ret_end = NoSnapshot
    /\ InitShared

config == <<V, V1, A, B, gamma, gamma_1, lamb, lamb_1, n_run, test_conv,
            max_iter, min_residuals, callback, track_factor, track_error>>
upd_hist == <<prevW, prevH, prevH1, zero_den>>

\* lines 76-77
Factorize_Check ==
    /\ pc = "start"
    /\ pc' = IF ShapeMismatch THEN "error" ELSE "seed"
    /\ UNCHANGED <<config, options_idx, run, iter, p_obj, c_obj, best_obj,
                   err_avg, W, H, H1, final_obj, n_iter, mffit, cb_arg,
                   cb_count, tracker, obj_of, obj_prev, finals, ret_end,
                   upd_hist>>

\* lines 80-81: options['idx'] = 0; W, H seeded from V
Run_SeedV ==
    /\ pc = "seed"
    /\ options_idx' = 0
    /\ W' = Seeded(run, 0)
    /\ H' = Seeded(run, 0)
    /\ cb_arg' = NoSnapshot
    /\ tracker' = NoRecords
    /\ pc' = "seed1"
    /\ UNCHANGED <<config, run, iter, p_obj, c_obj, best_obj, err_avg, H1,
                   final_obj, n_iter, mffit, cb_count, obj_of, obj_prev,
                   finals, ret_end, upd_hist>>

\* lines 82-83: options['idx'] = 1; H1 seeded from V1, its basis discarded
Run_SeedV1 ==
    /\ pc = "seed1"
    /\ options_idx' = 1
    /\ H1' = Seeded(run, 1)
    /\ pc' = "begin"
    /\ UNCHANGED <<config, run, iter, p_obj, c_obj, best_obj, err_avg, W, H,
                   final_obj, n_iter, mffit, cb_arg, cb_count, tracker,
                   obj_of, obj_prev, finals, ret_end, upd_hist>>

\* lines 84-87: options.pop('idx'), the initial objective, best_obj, iter
Run_Begin ==
    /\ pc = "begin"
    /\ options_idx' = "absent"
    /\ \E o \in ObjVals, e \in ErrVals :
         /\ c_obj' = o
         /\ p_obj' = o
         /\ err_avg' = e
         /\ best_obj' = IF run = 0 THEN o ELSE best_obj
    /\ obj_of' = <<W, H, H1>>
    /\ obj_prev' = NoValue
    /\ iter' = 0
    /\ pc' = "loop"
    /\ UNCHANGED <<config, run, W, H, H1, final_obj, n_iter, mffit, cb_arg,
                   cb_count, tracker, finals, ret_end, upd_hist>>

\* lines 88-94: one pass of the while body
Loop_Iterate ==
    /\ pc = "loop"
    /\ is_satisfied(p_obj, c_obj, iter)
    /\ iter < IterCap
    /\ p_obj' = IF EvalPoint(iter) THEN c_obj ELSE p_obj
    /\ W' = Updated(W) /\ H' = Updated(H) /\ H1' = Updated(H1)
    /\ IF EvalPoint(iter)
       THEN /\ \E o \in ObjVals, e \in ErrVals : c_obj' = o /\ err_avg' = e
            /\ obj_of' = <<W', H', H1'>>
            /\ obj_prev' = c_obj
       ELSE UNCHANGED <<c_obj, err_avg, obj_of, obj_prev>>
    /\ iter' = iter + 1
    /\ tracker' = IF track_error
                  THEN [tracker EXCEPT !.errors = <<c_obj', run>>]
                  ELSE tracker
    /\ UNCHANGED <<pc, config, options_idx, run, best_obj, final_obj, n_iter,
                   mffit, cb_arg, cb_count, finals, ret_end, upd_hist>>

\* line 88: the while condition is false
Loop_Exit ==
    /\ pc = "loop"
    /\ ~is_satisfied(p_obj, c_obj, iter)
    /\ pc' = "callback"
    /\ UNCHANGED <<config, options_idx, run, iter, p_obj, c_obj, best_obj,
                   err_avg, W, H, H1, final_obj, n_iter, mffit, cb_arg,
                   cb_count, tracker, obj_of, obj_prev, finals, ret_end,
                   upd_hist>>

\* lines 95-98
Run_Callback ==
    /\ pc = "callback"
    /\ IF callback
       THEN /\ final_obj' = c_obj
            /\ cb_arg' = Fitted(W, H, H1, final_obj', n_iter)
            /\ cb_count' = cb_count + 1
       ELSE UNCHANGED <<final_obj, cb_arg, cb_count>>
    /\ pc' = "track"
    /\ UNCHANGED <<config, options_idx, run, iter, p_obj, c_obj, best_obj,
                   err_avg, W, H, H1, n_iter, mffit, tracker, obj_of,
                   obj_prev, finals, ret_end, upd_hist>>

\* lines 99-101; self.tracker is None unless tracker_present (line 154)
Run_Track ==
    /\ pc = "track"
    /\ IF ~track_factor
       THEN pc' = "select" /\ UNCHANGED tracker
       ELSE IF ~tracker_present
       THEN pc' = "raise" /\ UNCHANGED tracker
       ELSE /\ pc' = "select"
            /\ tracker' = [tracker EXCEPT
                             !.factors = Fitted(W, H, H1, c_obj, iter)]
    /\ UNCHANGED <<config, options_idx, run, iter, p_obj, c_obj, best_obj,
                   err_avg, W, H, H1, final_obj, n_iter, mffit, cb_arg,
                   cb_count, obj_of, obj_prev, finals, ret_end, upd_hist>>

\* lines 103-107, then the next pass of the for loop or line 109
Run_Select ==
    /\ pc = "select"
    /\ IF Accepts(c_obj, best_obj, run)
       THEN /\ best_obj' = c_obj
            /\ n_iter' = iter
            /\ final_obj' = c_obj
            /\ mffit' = Mf_fit(run)
            /\ ret_end' = Fitted(W, H, H1, c_obj, iter)
       ELSE UNCHANGED <<best_obj, n_iter, final_obj, mffit, ret_end>>
    /\ finals' = Append(finals, c_obj)
    /\ run' = run + 1
    /\ pc' = IF run + 1 < n_run THEN "seed" ELSE "done"
    /\ UNCHANGED <<config, options_idx, iter, p_obj, c_obj, err_avg, W, H, H1,
                   cb_arg, cb_count, tracker, obj_of, obj_prev, upd_hist>>

Next ==
    \/ Factorize_Check
    \/ Run_SeedV
    \/ Run_SeedV1
    \/ Run_Begin
    \/ Loop_Iterate
    \/ Loop_Exit
    \/ Run_Callback
    \/ Run_Track
    \/ Run_Select

Spec == Init /\ [][Next]_vars

(***************************************************************************)
(* Properties of the controller                                            *)
(***************************************************************************)
RangeOf(s) == {s[i] : i \in 1..Len(s)}
MinOf(s) == CHOOSE x \in RangeOf(s) : \A y \in RangeOf(s) : x <= y
LatestArgMin(s) ==
    CHOOSE i \in 1..Len(s) :
        s[i] = MinOf(s) /\ \A j \in (i + 1)..Len(s) : s[j] # MinOf(s)
AfterLoop == {"callback", "track", "select"}

R1(it) == test_conv > 0 /\ it % test_conv # 0
R2 == err_avg < ErrTol
R3(it) == max_iter > 0 /\ it >= max_iter
R4(p, c, it) == min_residuals > 0 /\ it > 0 /\ p - c < min_residuals
R5(p, c, it) == it > 0 /\ c > p
Continues(p, c, it) ==
    R1(it) \/ (~R2 /\ ~R3(it) /\ ~R4(p, c, it) /\ ~R5(p, c, it))

\* C3: is_satisfied decides by the strict priority 1..6 for every p_obj,
\* c_obj and iter: rule 1 continues whatever p_obj, c_obj, err_avg and
\* max_iter are, otherwise any of rules 2-5 stops, otherwise continue; with
\* test_conv = 3 iterations 1 and 2 continue; the loop is left only when the
\* rules say stop.
C3_Priority ==
    /\ (pc = "loop" /\ iter = 0) =>
          \A p \in ObjVals, c \in ObjVals, it \in 0..IterCap :
             /\ is_satisfied(p, c, it) = Continues(p, c, it)
             /\ (test_conv = 3 /\ it \in {1, 2}) => is_satisfied(p, c, it)
    /\ pc = "loop" =>
          is_satisfied(p_obj, c_obj, iter) = Continues(p_obj, c_obj, iter)
    /\ pc \in AfterLoop => ~Continues(p_obj, c_obj, iter)

\* test_conv = 3, iteration 2: rules 2, 3 and 5 would all stop, rule 1 wins
C3_Witness ==
    /\ pc = "loop" /\ test_conv = 3 /\ iter = 2
    /\ err_avg < ErrTol /\ max_iter = 1 /\ c_obj > p_obj
    /\ is_satisfied(p_obj, c_obj, iter)

\* C4: with test_conv unset, whenever the loop performs another update after
\* iteration k >= 1, the objective of iteration k is <= that of iteration
\* k - 1; only the last value of a run may exceed its predecessor.
C4_NonIncreasing ==
    [][(pc = "loop" /\ test_conv = 0 /\ iter >= 1 /\ iter' = iter + 1)
          => c_obj <= obj_prev]_vars

\* a run of at least two updates whose last objective exceeds its predecessor
C4_Witness ==
    /\ test_conv = 0 /\ pc = "callback" /\ iter >= 2
    /\ c_obj > obj_prev

Untouched ==
    /\ options_idx = "absent"
    /\ W = NoMatrix /\ H = NoMatrix /\ H1 = NoMatrix
    /\ c_obj = NoValue /\ p_obj = NoValue /\ err_avg = NoValue
    /\ iter = 0 /\ cb_count = 0 /\ cb_arg = NoSnapshot
    /\ tracker = NoRecords /\ mffit = NoFit /\ finals = <<>>

\* C5: with different row counts factorize fails before any seeding,
\* objective evaluation, update, callback or tracker call, leaving W, H, H1
\* and the options as they were; with equal row counts it never fails so.
C5_ShapeCheck ==
    /\ V.shape[1] # V1.shape[1] => pc \in {"start", "error"} /\ Untouched
    /\ V.shape[1] = V1.shape[1] => pc # "error"

\* V of shape 3x4 and V1 of shape 5x4: the error is raised
C5_Witness ==
    pc = "error" /\ V.shape = <<3, 4>> /\ V1.shape = <<5, 4>>

\* C6: the callback has been invoked once per run when the run's loop has
\* exited, and what it received reports this run's W, H, H1, final objective
\* and iteration count.
C6_CallbackSnapshot ==
    (callback /\ pc = "track") =>
        /\ cb_count = run + 1
        /\ cb_arg = Fitted(W, H, H1, c_obj, iter)

\* C7: when factorize returns, the retained result exposes the W, H, H1,
\* final objective and iteration count its run ended with, whatever later
\* runs did.
C7_RetainedStable ==
    pc = "done" => Exposed(mffit) = ret_end

\* C9 as claimed: with max_iter configured the iteration counter at loop exit
\* is <= max_iter.
C9_Budget ==
    (Truthy(max_iter) /\ pc = "callback") => iter <= max_iter

\* max_iter rounded up to a multiple of the test_conv interval
RoundUp(m, t) == IF t <= 1 THEN m ELSE ((m + t - 1) \div t) * t

\* C9 amended: with max_iter configured the iteration counter never exceeds
\* max_iter rounded up to the next multiple of test_conv (max_iter itself
\* when test_conv is unset, 1 or divides max_iter), and the loop stops there.
C9_BudgetRounded ==
    Truthy(max_iter) =>
        /\ iter <= RoundUp(max_iter, test_conv)
        /\ (pc = "loop" /\ iter = RoundUp(max_iter, test_conv))
              => ~is_satisfied(p_obj, c_obj, iter)

\* max_iter = 2, test_conv = 3: the loop is left after 3 updates
C9_Witness ==
    pc = "callback" /\ max_iter = 2 /\ test_conv = 3 /\ iter = 3

\* C10 as claimed: at loop exit c_obj is the objective of the final W, H, H1.
C10_Fresh ==
    pc \in AfterLoop => obj_of = <<W, H, H1>>

Stale == IF test_conv <= 1 \/ iter = 0 THEN 0 ELSE test_conv - 1
Back(m) == [m EXCEPT !.upd = @ - Stale]

\* C10 amended: at loop exit c_obj is the objective of the final W, H, H1
\* when test_conv is unset or 1 or the run made no update; otherwise it is
\* the objective of the matrices test_conv - 1 updates before the final ones.
C10_Staleness ==
    pc \in AfterLoop => obj_of = <<Back(W), Back(H), Back(H1)>>

\* test_conv = 3, loop left after 3 updates: c_obj is two updates old
C10_Witness ==
    /\ pc = "callback" /\ test_conv = 3 /\ iter = 3
    /\ W.upd = 3 /\ obj_of[1].upd = 1

(***************************************************************************)
(* Numbers of update() and objective() (SpecUpdate): exact rationals       *)
(* <<n, d>> in lowest terms with d > 0, extended as IEEE floats are by     *)
(* <<1, 0>> = inf, <<-1, 0>> = -inf and <<0, 0>> = nan, so that x/0 is inf  *)
(* and 0/0 is nan.  Rounding and overflow of floats are not modelled.      *)
(***************************************************************************)
Abs(x) == IF x < 0 THEN 0 - x ELSE x
Sign(x) == IF x < 0 THEN 0 - 1 ELSE IF x > 0 THEN 1 ELSE 0

RECURSIVE GCD(_, _)
GCD(a, b) == IF b = 0 THEN a ELSE GCD(b, a % b)

RNorm(n, d) ==
    IF d = 0 THEN <<Sign(n), 0>>
    ELSE LET g == GCD(Abs(n), Abs(d))
         IN  <<(Sign(d) * n) \div g, Abs(d) \div g>>
Rat(n) == <<n, 1>>
NaN == <<0, 0>>
RAdd(a, b) ==
    IF a[2] = 0 /\ b[2] = 0 THEN (IF a = b THEN a ELSE NaN)
    ELSE IF a[2] = 0 THEN a
    ELSE IF b[2] = 0 THEN b
    ELSE LET g == GCD(a[2], b[2])
         IN  RNorm(a[1] * (b[2] \div g) + b[1] * (a[2] \div g),
                   (a[2] \div g) * b[2])
RNeg(a) == <<0 - a[1], a[2]>>
RSub(a, b) == RAdd(a, RNeg(b))
RMul(a, b) ==
    IF a[2] = 0 \/ b[2] = 0 THEN <<Sign(a[1]) * Sign(b[1]), 0>>
    ELSE LET g1 == GCD(Abs(a[1]), b[2])
             g2 == GCD(Abs(b[1]), a[2])
         IN  <<(a[1] \div g1) * (b[1] \div g2), (a[2] \div g2) * (b[2] \div g1)>>
\* 1/b: 1/0 = inf, 1/inf = 0, 1/nan = nan
RInv(b) == IF b[1] < 0 THEN <<0 - b[2], 0 - b[1]>>
           ELSE IF b[1] = 0 /\ b[2] # 0 THEN <<1, 0>>
           ELSE IF b[2] = 0 /\ b[1] # 0 THEN <<0, 1>>
           ELSE <<b[2], b[1]>>
RDiv(a, b) == RMul(a, RInv(b))
RAbs(a) == <<Abs(a[1]), a[2]>>
RNonNeg(a) == a # NaN /\ a[1] >= 0
RFinite(a) == a[2] # 0

\* matrices are sequences of rows
Rows(X) == Len(X)
Cols(X) == Len(X[1])
RECURSIVE RSum(_, _)
RSum(f, n) == IF n = 0 THEN Rat(0) ELSE RAdd(RSum(f, n - 1), f[n])
RECURSIVE Build(_, _)
Build(F(_), n) == IF n = 0 THEN <<>> ELSE Append(Build(F, n - 1), F(n))
Matrix(F(_, _), r, c) == Build(LAMBDA i : Build(LAMBDA j : F(i, j), c), r)

\* X.T
Tr(X) == Matrix(LAMBDA i, j : X[j][i], Cols(X), Rows(X))
\* X + Y, X - Y, s * X, abs(X)
madd(X, Y) == Matrix(LAMBDA i, j : RAdd(X[i][j], Y[i][j]), Rows(X), Cols(X))
msub(X, Y) == Matrix(LAMBDA i, j : RSub(X[i][j], Y[i][j]), Rows(X), Cols(X))
scale(s, X) == Matrix(LAMBDA i, j : RMul(s, X[i][j]), Rows(X), Cols(X))
mabs(X) == Matrix(LAMBDA i, j : RAbs(X[i][j]), Rows(X), Cols(X))
\* X.sum(), X.mean()
msum(X) == RSum(Build(LAMBDA i : RSum(X[i], Cols(X)), Rows(X)), Rows(X))
mean(X) == RDiv(msum(X), Rat(Rows(X) * Cols(X)))

\* mf.utils.linalg: matrix product, elementwise product and quotient, trace
dot(X, Y) ==
    Matrix(LAMBDA i, j :
               RSum(Build(LAMBDA k : RMul(X[i][k], Y[k][j]), Cols(X)), Cols(X)),
           Rows(X), Cols(Y))
multiply(X, Y) == Matrix(LAMBDA i, j : RMul(X[i][j], Y[i][j]), Rows(X), Cols(X))
elop_div(X, Y) == Matrix(LAMBDA i, j : RDiv(X[i][j], Y[i][j]), Rows(X), Cols(X))
trace(X) == RSum(Build(LAMBDA i : X[i][i], Rows(X)), Rows(X))
\* sop(X, 2, pow)
sop_pow2(X) == multiply(X, X)
\* sop(X, s, add) as used at line 164: the shared term T = X + s * I
sop_add(X, s) ==
    Matrix(LAMBDA i, j : IF i = j THEN RAdd(X[i][j], s) ELSE X[i][j],
           Rows(X), Cols(X))

Half(x) == RDiv(x, Rat(2))
HasZero(X) == \E i \in 1..Rows(X), j \in 1..Cols(X) : X[i][j] = Rat(0)
AllNonNeg(X) == \A i \in 1..Rows(X), j \in 1..Cols(X) : RNonNeg(X[i][j])
AllFinite(X) == \A i \in 1..Rows(X), j \in 1..Cols(X) : RFinite(X[i][j])

\* lines 156-171 with H committed before H1 is computed
update_commit_early(w, h, h1) ==
    LET temp_w1 == madd(dot(V, Tr(h)), dot(V1, Tr(h1)))
        temp_w2 == madd(dot(w, madd(dot(h, Tr(h)), dot(h1, Tr(h1)))),
                        scale(Half(gamma), w))
        Wn == multiply(w, elop_div(temp_w1, temp_w2))
        temp == sop_add(dot(Tr(Wn), Wn), gamma_1)
        temp_h1 == madd(dot(Tr(Wn), V), scale(Half(lamb_1), dot(h1, Tr(B))))
        HH1 == multiply(h, elop_div(temp_h1, dot(temp, h)))
        temp_h3 == madd(madd(dot(Tr(Wn), V1), scale(lamb, dot(h1, A))),
                        scale(Half(lamb_1), dot(HH1, B)))
        temp_h4 == dot(temp, h1)
        H1n == multiply(h1, elop_div(temp_h3, temp_h4))
    IN  [W |-> Wn, H |-> HH1, H1 |-> H1n,
         zero |-> HasZero(temp_w2) \/ HasZero(dot(temp, h)) \/ HasZero(temp_h4)]

\* lines 156-171 with the growth penalty of line 160 subtracted
update_minus(w, h, h1) ==
    LET temp_w1 == madd(dot(V, Tr(h)), dot(V1, Tr(h1)))
        temp_w2 == msub(dot(w, madd(dot(h, Tr(h)), dot(h1, Tr(h1)))),
                        scale(Half(gamma), w))
        Wn == multiply(w, elop_div(temp_w1, temp_w2))
        temp == sop_add(dot(Tr(Wn), Wn), gamma_1)
        temp_h1 == madd(dot(Tr(Wn), V), scale(Half(lamb_1), dot(h1, Tr(B))))
        HH1 == multiply(h, elop_div(temp_h1, dot(temp, h)))
        temp_h3 == madd(madd(dot(Tr(Wn), V1), scale(lamb, dot(h1, A))),
                        scale(Half(lamb_1), dot(h, B)))
        temp_h4 == dot(temp, h1)
        H1n == multiply(h1, elop_div(temp_h3, temp_h4))
    IN  [W |-> Wn, H |-> HH1, H1 |-> H1n,
         zero |-> HasZero(temp_w2) \/ HasZero(dot(temp, h)) \/ HasZero(temp_h4)]

\* lines 156-171: the new W, H, H1 from self.W = w, self.H = h, self.H1 = h1;
\* zero: some entry of a denominator (temp_w2, dot(temp, H), temp_h4) is 0
update(w, h, h1) ==
    LET temp_w1 == madd(dot(V, Tr(h)), dot(V1, Tr(h1)))
        temp_w2 == madd(dot(w, madd(dot(h, Tr(h)), dot(h1, Tr(h1)))),
                        scale(Half(gamma), w))
        Wn == multiply(w, elop_div(temp_w1, temp_w2))
        temp == sop_add(dot(Tr(Wn), Wn), gamma_1)
        temp_h1 == madd(dot(Tr(Wn), V), scale(Half(lamb_1), dot(h1, Tr(B))))
        HH1 == multiply(h, elop_div(temp_h1, dot(temp, h)))
        temp_h3 == madd(madd(dot(Tr(Wn), V1), scale(lamb, dot(h1, A))),
                        scale(Half(lamb_1), dot(h, B)))
        temp_h4 == dot(temp, h1)
        H1n == multiply(h1, elop_div(temp_h3, temp_h4))
    IN  [W |-> Wn, H |-> HH1, H1 |-> H1n,
         zero |-> HasZero(temp_w2) \/ HasZero(dot(temp, h)) \/ HasZero(temp_h4)]

\* lines 175-177: self.err_avg
objective_err(w, h, h1) ==
    LET err_avg1 == RDiv(mean(mabs(msub(V, dot(w, h)))), mean(V))
        err_avg2 == RDiv(mean(mabs(msub(V1, dot(w, h1)))), mean(V1))
    IN  RAdd(err_avg1, err_avg2)

\* lines 178-184: the value objective() returns
objective(w, h, h1) ==
    LET eucl1 == msum(sop_pow2(msub(V, dot(w, h))))
        eucl2 == msum(sop_pow2(msub(V1, dot(w, h1))))
        tr1 == trace(dot(dot(h1, A), Tr(h1)))
        tr2 == trace(dot(dot(h, B), Tr(h1)))
        s1 == msum(sop_pow2(w))
        s2 == RAdd(msum(sop_pow2(h)), msum(sop_pow2(h1)))
    IN  RAdd(RAdd(RSub(RSub(RAdd(eucl1, eucl2), RMul(lamb, tr1)),
                       RMul(lamb_1, tr2)),
                  RMul(gamma, s1)),
             RMul(gamma_1, s2))

\* the entries of W, H, H1 before the update range over k/2, k in 0..MaxEntry
MaxEntry == 2

Entries == {RNorm(k, 2) : k \in 0..MaxEntry}
Mat(S, r, c) == [1..r -> [1..c -> S]]
I(X) == Matrix(LAMBDA i, j : Rat(X[i][j]), Rows(X), Cols(X))
\* V is s x m, V1 is s x n, A is n x n, B is m x n, with s = 2, m = 2, n = 1
VInputs == {I(<<<<2, 0>>, <<1, 3>>>>)}
V1Inputs == {I(<<<<1>>, <<2>>>>)}
AInputs == {I(<<<<1>>>>)}
BInputs == {I(<<<<1>>, <<2>>>>)}
ParamVals == {Rat(0), Rat(2)}

InitUpdate ==
    /\ pc = "objective"
    /\ V \in VInputs /\ V1 \in V1Inputs /\ A \in AInputs /\ B \in BInputs
    /\ gamma \in ParamVals /\ gamma_1 \in ParamVals
    /\ lamb \in ParamVals /\ lamb_1 \in ParamVals
    /\ W \in Mat(Entries, 2, 1)
    /\ H \in Mat(Entries, 1, 2)
    /\ H1 \in Mat(Entries, 1, 1)
    /\ prevW = W /\ prevH = H /\ prevH1 = H1
    /\ zero_den = FALSE
    /\ iter = 0
    /\ c_obj = NaN /\ err_avg = NaN
    /\ n_run = 1 /\ test_conv = 0 /\ max_iter = 0 /\ min_residuals = 0
    /\ callback = FALSE /\ track_factor = FALSE /\ track_error = FALSE
    /\ options_idx = "absent" /\ run = 0
    /\ p_obj = NaN /\ best_obj = NaN
    /\ final_obj = NoValue /\ n_iter = NoValue
    /\ mffit = NoFit /\ cb_arg = NoSnapshot /\ cb_count = 0
    /\ tracker = NoRecords
    /\ obj_of = <<NoMatrix, NoMatrix, NoMatrix>> /\ obj_prev = NaN
    /\ finals = <<>> /\ ret_end = NoSnapshot

ctl == <<options_idx, run, best_obj, final_obj, n_iter, mffit, cb_arg,
         cb_count, tracker, finals, ret_end>>

\* line 85: the objective of the seeded matrices
Objective_Step ==
    /\ pc = "objective"
    /\ c_obj' = objective(W, H, H1)
    /\ p_obj' = c_obj'
    /\ err_avg' = objective_err(W, H, H1)
    /\ obj_of' = <<W, H, H1>>
    /\ pc' = "update"
    /\ UNCHANGED <<config, ctl, iter, obj_prev, W, H, H1, upd_hist>>

\* lines 90 and 92: self.update(iter); iter += 1
Update_Step ==
    /\ pc = "update"
    /\ LET u == update(W, H, H1)
       IN  /\ W' = u.W /\ H' = u.H /\ H1' = u.H1
           /\ zero_den' = (zero_den \/ u.zero)
    /\ prevW' = W /\ prevH' = H /\ prevH1' = H1
    /\ iter' = iter + 1
    /\ pc' = "updated"
    /\ UNCHANGED <<config, ctl, p_obj, c_obj, err_avg, obj_of, obj_prev>>

NextUpdate ==
    \/ Objective_Step
    \/ Update_Step

SpecUpdate == InitUpdate /\ [][NextUpdate]_vars

(***************************************************************************)
(* Properties of the update                                                *)
(***************************************************************************)
\* C2: for nonnegative V, V1, A, B, gamma, gamma_1, lamb, lamb_1 and
\* nonnegative seeds, every entry of W, H and H1 is >= 0 after each call of
\* update, as long as no denominator entry was zero.
C2_NonNegative ==
    (pc = "updated" /\ ~zero_den) =>
        AllNonNeg(W) /\ AllNonNeg(H) /\ AllNonNeg(H1)

\* an update without a zero denominator, with every factor still positive
C2_Witness ==
    /\ pc = "updated" /\ ~zero_den
    /\ ~HasZero(W) /\ ~HasZero(H) /\ ~HasZero(H1)
    /\ lamb # Rat(0) /\ lamb_1 # Rat(0) /\ ~HasZero(A) /\ ~HasZero(B)

\* the step of spec 4.3 as equations over the values before the step
StepW(w, h, h1) ==
    multiply(w, elop_div(madd(dot(V, Tr(h)), dot(V1, Tr(h1))),
                         madd(dot(w, madd(dot(h, Tr(h)), dot(h1, Tr(h1)))),
                              scale(Half(gamma), w))))
StepT(wn) == sop_add(dot(Tr(wn), wn), gamma_1)
StepH(wn, h, h1) ==
    multiply(h, elop_div(madd(dot(Tr(wn), V), scale(Half(lamb_1), dot(h1, Tr(B)))),
                         dot(StepT(wn), h)))
StepH1(wn, h, h1) ==
    multiply(h1, elop_div(madd(madd(dot(Tr(wn), V1), scale(lamb, dot(h1, A))),
                               scale(Half(lamb_1), dot(h, B))),
                          dot(StepT(wn), h1)))
Stepped == pc = "updated"

\* C8: after an update, W is the W rule on the old W, H, H1; H is the H rule
\* on the new W and the old H, H1; H1 is the H1 rule on the new W and the old
\* H, H1: nothing reads the new H or the new H1.
C8_DataFlow ==
    Stepped =>
        /\ W = StepW(prevW, prevH, prevH1)
        /\ H = StepH(W, prevH, prevH1)
        /\ H1 = StepH1(W, prevH, prevH1)

\* an update where reading the new H, or the new H1, would have given other
\* values than the ones computed
C8_Witness ==
    /\ Stepped /\ ~zero_den
    /\ H # prevH /\ H1 # prevH1
    /\ AllFinite(StepH1(W, H, prevH1)) /\ StepH1(W, H, prevH1) # H1
    /\ AllFinite(StepH(W, prevH, H1)) /\ StepH(W, prevH, H1) # H

====
